---- MODULE Spec2Model ----
(***************************************************************************)
(* Credential lifecycle of the Gmail/Calendar delegation service:          *)
(* security.py (Fernet encrypt/decrypt), models.py (gmail_accounts and     *)
(* agent_secrets tables), auth_service.py (grant exchange,                 *)
(* store_credentials, get_valid_credentials), main.py (startup, login and  *)
(* the /secrets endpoints).                                                *)
(*                                                                         *)
(* Specifications: Spec (one worker, configured host), SpecEnv (the same   *)
(* started in any environment), SpecConc (two workers on one agent against *)
(* a provider that rotates refresh tokens), SpecReauth (the same against   *)
(* a provider that does not), SpecSecrets (the /secrets endpoints),        *)
(* SpecSecurity (encrypt/decrypt on their own).                            *)
(*                                                                         *)
(* Every request is handled by a worker p \in Procs with its own database  *)
(* session.  A handler is cut into steps at its blocking points: the call  *)
(* to the identity provider and the two database round trips of            *)
(* store_credentials (SELECT at line 56, INSERT/UPDATE + COMMIT at 71).    *)
(*                                                                         *)
(* Data representation.  A Python str is a sequence of character codes     *)
(* 1, 2, ...; "" is << >>; None is <<0>> (0 is no character code, so None  *)
(* differs from every string).  A datetime is <<t, tz>> with t the wall    *)
(* clock reading it carries and tz = 0 for a naive value (tzinfo is None), *)
(* 1 for a value carrying tzinfo = UTC.  One clock unit is the resolution  *)
(* of a token lifetime; request handlers complete within a clock unit.     *)
(***************************************************************************)
EXTENDS Integers, Sequences, FiniteSets, TLC

\* ------------------------------------------------------------------ bounds
MaxTime == 3
MaxLifetime == 2
\* Longest string handed to encrypt/decrypt on its own.
MaxLen == 3
\* Token pairs the rotating identity provider hands out in one behaviour.
MaxIssued == 4

Agents == {"agent-1", "agent-2"}
\* The agents that go through the authorization flow; the other agent is
\* only ever resolved and stays unconnected.
Authorizing == {"agent-1"}
Procs == {1, 2}
\* The workers that take requests in the sequential specification Spec.
Workers == {1}
\* Bearer and refresh tokens the identity provider can hand out (plaintext).
AccessTokens == {<<1>>, <<2>>}
RefreshTokens == {<<3>>, <<4>>}
Lifetimes == 1..MaxLifetime
\* UTC offsets of the host's local time zone, in clock units.
HostOffsets == {-1, 0, 1}
\* Character codes of the strings handed to encrypt/decrypt on their own
\* (128 is the leading byte of a Fernet token).
Chars == {1, 2, 128}
\* agent_secrets: service names, and the keys and values of a secret_data
\* map.
Services == {"slack"}
SecretKeys == {"api_key", "password"}
SecretValues == {<< >>, <<1>>, <<2>>}

VARIABLES
    env,      \* process environment: FERNET_KEY set, client-secret file
              \* present, UTC offset of the host's local time
    proc,     \* the server process: "boot", "serving" or "crashed"
    db,       \* gmail_accounts: agent_id -> row, for the agents that have one
    now,      \* UTC clock
    pc,       \* per worker: where its handler stands
    op,       \* per worker: the function it is running
    agent,    \* per worker: the agent_id argument
    account,  \* per worker: get_valid_credentials' `account` (line 76)
    sc_acct,  \* per worker: store_credentials' `account` (line 56)
    creds,    \* per worker: the Credentials object in hand
    resp,     \* per worker: access token of the provider's last answer
    calls,    \* per worker: provider calls made by the running handler
    log,      \* per worker: last message logged by the running handler
    ret,      \* per worker: how the handler ended
    sec,      \* a direct use of security.py: argument, token, result
    secrets,  \* agent_secrets: <<agent_id, service_name>> -> secret_data
    sres,     \* the last /secrets request and its response
    idp       \* the rotating identity provider: token pairs issued so far,
              \* the one refresh token it still accepts

vars == <<env, proc, db, now, pc, op, agent, account, sc_acct, creds, resp, calls,
          log, ret, sec, secrets, sres, idp>>

\* What the credential components never touch.
aside == <<sec, secrets, sres, idp>>

locals == <<op, agent, account, sc_acct, creds, resp, calls, log, ret>>

\* ------------------------------------------------------------ Python values
None == <<0>>

\* Python truthiness of an Optional[str] / Optional[datetime].
Truthy(x) == x # None /\ x # << >>

\* ------------------------------------------------------------- security.py
\* A Fernet token: version byte 0x80, the time of encryption, then the
\* payload (the random IV and the HMAC are left out).
IsFernetToken(token) ==
    Len(token) >= 2 /\ token[1] = 128 /\ token[2] \in Nat

InvalidToken == <<0, 0>>

\* Mutant of encrypt: the value is handed back as it came.
encryptPlain(data, ts) ==
    IF ~Truthy(data) THEN <<0>> ELSE data

\* Mutant of encrypt: no `if not data` guard, "" is encrypted like any
\* string.
encryptEmptyToo(data, ts) ==
    IF data = None THEN <<0>> ELSE <<128, ts>> \o data

\* encrypt(data) at clock reading ts: None for None/"", else a Fernet token.
encrypt(data, ts) ==
    IF ~Truthy(data) THEN None ELSE <<128, ts>> \o data

\* Mutant of decrypt: the stored value is handed back undecrypted.
decryptRaw(token) ==
    IF ~Truthy(token) THEN <<0>> ELSE token

\* decrypt(token): None for None/"", else the payload of the token;
\* fernet.decrypt raises InvalidToken on anything that is not a token.
decrypt(token) ==
    IF ~Truthy(token) THEN None
    ELSE IF IsFernetToken(token) THEN SubSeq(token, 3, Len(token))
    ELSE InvalidToken

\* What encrypt and decrypt are applied to on their own: None, "" and the
\* strings of up to MaxLen characters.
Inputs ==
    {None} \cup UNION { [1..n -> Chars] : n \in 0..MaxLen }

\* str(v): v itself for a str, the four letters of "None" for None.
Str(v) ==
    IF v = None THEN <<78, 111, 110, 101>> ELSE v

\* --------------------------------------------------------------- models.py
\* One row of gmail_accounts (agent_id is the key of the table function).
GmailAccount(access_token, refresh_token, expiry) ==
    [access_token |-> access_token,
     refresh_token |-> refresh_token,
     expiry |-> expiry]

\* Mutant of Query: the lookup never finds a row.
QueryFindsNothing(table, agent_id) ==
    [x \in {} |-> x]

\* Mutant of Query: the filter on agent_id is lost; any row answers.
QueryAnyAgent(table, agent_id) ==
    IF DOMAIN table = {} THEN [x \in {} |-> x]
    ELSE [x \in {agent_id} |-> table[CHOOSE y \in DOMAIN table : TRUE]]

\* db.query(GmailAccount).filter(GmailAccount.agent_id == agent_id): the
\* result set, a function on {agent_id} or on {} ; .first() is None iff {}.
Query(table, agent_id) ==
    [x \in (DOMAIN table \cap {agent_id}) |-> table[x]]

NoAccount == [x \in {} |-> x]

\* ------------------------------------------------- google.oauth2.credentials
Credentials(token, refresh_token, expiry) ==
    [token |-> token, refresh_token |-> refresh_token, expiry |-> expiry]

NoCreds == Credentials(None, None, None)

\* Mutant of AsUTC: expiry.astimezone(utc), which reads a naive value as the
\* host's local time.
AsUTCFromLocal(expiry) ==
    IF Truthy(expiry) /\ expiry[2] = 0
    THEN <<expiry[1] - env.utc_offset, 1>>
    ELSE expiry

\* expiry.replace(tzinfo=datetime.timezone.utc) for a naive expiry.
AsUTC(expiry) ==
    IF Truthy(expiry) /\ expiry[2] = 0 THEN <<expiry[1], 1>> ELSE expiry

\* Mutant of Expired: the comparison runs against a clock two units behind
\* UTC (a local clock read as UTC).
ExpiredSkewed(c, t) ==
    c.expiry # None /\ t - 2 >= c.expiry[1]

\* creds.expired: False without an expiry, else utcnow() >= expiry.
Expired(c, t) ==
    c.expiry # None /\ t >= c.expiry[1]

\* Mutant of Classify: every expired credential is refreshed, with or
\* without a refresh token.
ClassifyAlwaysRefresh(c, t) ==
    IF Expired(c, t) THEN "refresh" ELSE "valid"

\* Mutant of Classify: the elif branch is missing, an expired credential
\* without a refresh token is returned as it is.
ClassifyNoReauth(c, t) ==
    IF Expired(c, t) /\ Truthy(c.refresh_token) THEN "refresh" ELSE "valid"

\* The branch get_valid_credentials takes on a Credentials object (lines
\* 100, 109 and 113).
Classify(c, t) ==
    IF Expired(c, t) /\ Truthy(c.refresh_token) THEN "refresh"
    ELSE IF Expired(c, t) /\ ~Truthy(c.refresh_token) THEN "reauth_required"
    ELSE "valid"

\* The failures get_valid_credentials tells apart in its log.
FailureKinds == {"no_account", "reauth_required", "refresh_failed"}

\* What get_valid_credentials returns to its caller on each failure (lines
\* 79, 111 and 108).
ReturnedFor(kind) ==
    CASE kind = "no_account" -> "None"
      [] kind = "reauth_required" -> "None"
      [] kind = "refresh_failed" -> "None"

\* Mutant of ModuleInit: a missing key is only logged and the process comes
\* up.
ModuleInitWarnOnly(key_set) ==
    "serving"

\* The module initialisation of security.py (lines 5-15), run when main.py
\* is imported: without FERNET_KEY it raises and the process does not come
\* up.
ModuleInit(key_set) ==
    IF key_set THEN "serving" ELSE "crashed"

\* A correctly configured host on UTC.
Configured ==
    [fernet_key |-> TRUE, secrets_file |-> TRUE, utc_offset |-> 0]

\* Every environment the process can be started in.
Environments ==
    [fernet_key : BOOLEAN, secrets_file : BOOLEAN, utc_offset : HostOffsets]

\* security.py not called on its own.
Unused ==
    [data |-> None, token |-> None, plain |-> None, step |-> "-"]

\* An empty agent_secrets table; an empty secret_data map.
NoSecrets == [x \in {} |-> x]
NoData == [k \in {} |-> << >>]

\* No /secrets request served yet.
NoRequest ==
    [fn |-> "-", key |-> <<"-", "-">>, body |-> NoData, status |-> 0,
     data |-> NoData, listed |-> {}]

Boot ==
    /\ proc = "boot"
    /\ idp = [n |-> 0, valid |-> None]
    /\ secrets = NoSecrets
    /\ sres = NoRequest
    /\ db = NoAccount
    /\ now = 0
    /\ pc = [p \in Procs |-> "idle"]
    /\ op = [p \in Procs |-> "-"]
    /\ agent = [p \in Procs |-> "-"]
    /\ account = [p \in Procs |-> NoAccount]
    /\ sc_acct = [p \in Procs |-> NoAccount]
    /\ creds = [p \in Procs |-> NoCreds]
    /\ resp = [p \in Procs |-> None]
    /\ calls = [p \in Procs |-> 0]
    /\ log = [p \in Procs |-> "-"]
    /\ ret = [p \in Procs |-> "-"]

Init ==
    env = Configured /\ sec = Unused /\ Boot

InitEnv ==
    env \in Environments /\ sec = Unused /\ Boot

\* A configured process about to pass `data` through security.py.
InitSecurity ==
    /\ env = Configured
    /\ sec \in { [data |-> d, token |-> None, plain |-> None, step |-> "arg"] :
                    d \in Inputs }
    /\ Boot

\* The process starts: main.py is imported, and with it security.py.
Startup ==
    /\ proc = "boot"
    /\ proc' = ModuleInit(env.fernet_key)
    /\ UNCHANGED <<aside, env, db, now, pc, locals>>

\* --------------------------------------------------------------- security.py
\* token = encrypt(data)
security_encrypt ==
    /\ proc = "serving"
    /\ sec.step = "arg"
    /\ sec' = [sec EXCEPT !.token = encrypt(sec.data, now),
                          !.step = "encrypted"]
    /\ UNCHANGED <<idp, secrets, sres, env, proc, db, now, pc, locals>>

\* plain = decrypt(token), of the token encrypt returned
security_decrypt ==
    /\ proc = "serving"
    /\ sec.step = "encrypted"
    /\ sec' = [sec EXCEPT !.plain = decrypt(sec.token),
                          !.step = "decrypted"]
    /\ UNCHANGED <<idp, secrets, sres, env, proc, db, now, pc, locals>>

\* plain = decrypt(data), of a value that did not come from encrypt
security_decrypt_arg ==
    /\ proc = "serving"
    /\ sec.step = "arg"
    /\ sec' = [sec EXCEPT !.plain = decrypt(sec.data),
                          !.step = "arg_decrypted"]
    /\ UNCHANGED <<idp, secrets, sres, env, proc, db, now, pc, locals>>

\* ---------------------------------------------------------- process steps
\* The handler of worker p ends: `how` is what its caller gets ("creds": the
\* Credentials object in creds[p]; "None"; "raise": an exception propagates).
Finish(p, how, msg) ==
    /\ pc' = [pc EXCEPT ![p] = "done"]
    /\ ret' = [ret EXCEPT ![p] = how]
    /\ log' = [log EXCEPT ![p] = msg]

\* What the identity provider can answer to a grant exchange: an access
\* token, optionally a refresh token, optionally a lifetime.
GrantResponses ==
    { Credentials(tok, rt, exp) :
        tok \in AccessTokens,
        rt \in RefreshTokens \cup {None},
        exp \in { <<now + l, 0>> : l \in Lifetimes } \cup {None} }

\* GET /auth/login/{agent_id}: get_google_flow, then the authorization URL
\* is built locally.  get_google_flow raises when the client-secret file is
\* missing.
login(p, a) ==
    /\ proc = "serving"
    /\ pc[p] = "idle"
    /\ op' = [op EXCEPT ![p] = "login"]
    /\ agent' = [agent EXCEPT ![p] = a]
    /\ IF env.secrets_file
       THEN Finish(p, "auth_url", "-")
       ELSE Finish(p, "raise", "-")
    /\ UNCHANGED <<aside, env, proc, db, now, account, sc_acct, creds, resp, calls>>

\* Mutant of OnFetchFailure: the exception is swallowed and the function goes
\* on to store_credentials with the credentials object it has.
OnFetchFailureSwallowed(p) ==
    /\ pc' = [pc EXCEPT ![p] = "store_query"]
    /\ UNCHANGED <<creds, resp, ret, log>>

\* flow.fetch_token raised: neither exchange function has a handler, the
\* exception leaves the function.
OnFetchFailure(p) ==
    /\ Finish(p, "raise", "-")
    /\ UNCHANGED <<creds, resp>>

\* get_google_flow, flow.fetch_token(...) then flow.credentials; the call
\* raises on an invalid/used code or a provider/network error.
fetch_token(p, a, fn) ==
    /\ proc = "serving"
    /\ pc[p] = "idle"
    /\ op' = [op EXCEPT ![p] = fn]
    /\ agent' = [agent EXCEPT ![p] = a]
    /\ IF env.secrets_file
       THEN /\ calls' = [calls EXCEPT ![p] = 1]
            /\ \/ OnFetchFailure(p)
               \/ \E c \in GrantResponses :
                    /\ creds' = [creds EXCEPT ![p] = c]
                    /\ resp' = [resp EXCEPT ![p] = c.token]
                    /\ pc' = [pc EXCEPT ![p] = "store_query"]
                    /\ UNCHANGED <<ret, log>>
       ELSE /\ Finish(p, "raise", "-")
            /\ UNCHANGED <<creds, resp, calls>>
    /\ UNCHANGED <<aside, env, proc, db, now, account, sc_acct>>

exchange_code_and_store(p, a) ==
    fetch_token(p, a, "exchange_code_and_store")

exchange_code_with_code(p, a) ==
    fetch_token(p, a, "exchange_code_with_code")

\* store_credentials, lines 49-56: the SELECT of the existing row.
store_credentials_query(p) ==
    /\ pc[p] = "store_query"
    /\ sc_acct' = [sc_acct EXCEPT ![p] = Query(db, agent[p])]
    /\ pc' = [pc EXCEPT ![p] = "store_commit"]
    /\ UNCHANGED <<aside, env, proc, db, now, op, agent, account, creds, resp, calls,
                   log, ret>>

\* Mutant of UpdatedAccount: the refresh token column is assigned always,
\* also when the new credentials carry none.
UpdatedAccountClearing(old, c, ts) ==
    [access_token |-> encrypt(c.token, ts),
     refresh_token |-> encrypt(c.refresh_token, ts),
     expiry |-> c.expiry]

\* Mutant of UpdatedAccount: the expiry column is not assigned.
UpdatedAccountStaleExpiry(old, c, ts) ==
    [access_token |-> encrypt(c.token, ts),
     refresh_token |-> IF Truthy(c.refresh_token)
                           THEN encrypt(c.refresh_token, ts)
                           ELSE old.refresh_token,
     expiry |-> old.expiry]

\* Mutant of UpdatedAccount: a refresh token already stored is never
\* overwritten.
UpdatedAccountKeepsRefresh(old, c, ts) ==
    [access_token |-> encrypt(c.token, ts),
     refresh_token |-> IF Truthy(old.refresh_token)
                           THEN old.refresh_token
                           ELSE encrypt(c.refresh_token, ts),
     expiry |-> c.expiry]

\* The row store_credentials writes over an existing row `old`.
UpdatedAccount(old, c, ts) ==
    GmailAccount(
        encrypt(c.token, ts),
        IF Truthy(c.refresh_token) THEN encrypt(c.refresh_token, ts)
                                   ELSE old.refresh_token,
        c.expiry)

\* The row store_credentials inserts when it found none.
NewAccount(c, ts) ==
    GmailAccount(
        encrypt(c.token, ts),
        IF Truthy(c.refresh_token) THEN encrypt(c.refresh_token, ts) ELSE None,
        c.expiry)

\* How store_credentials' caller goes on after it returned (lines 36, 45,
\* 105 and 113).
StoreReturned(p) ==
    IF op[p] = "get_valid_credentials"
    THEN Finish(p, "creds", "refreshed")
    ELSE Finish(p, "creds", "-")

\* How store_credentials' caller goes on after db.commit() raised: the
\* exchange functions let it propagate, get_valid_credentials catches it
\* (lines 106-108).
StoreRaised(p) ==
    IF op[p] = "get_valid_credentials"
    THEN Finish(p, ReturnedFor("refresh_failed"), "refresh_failed")
    ELSE Finish(p, "raise", "-")

\* store_credentials, lines 57-73: INSERT or UPDATE, then COMMIT.  The
\* INSERT of a key another session committed meanwhile violates the primary
\* key and db.commit() raises.
store_credentials_commit(p) ==
    /\ pc[p] = "store_commit"
    /\ LET a == agent[p]
           c == creds[p]
       IN  IF sc_acct[p] = NoAccount
           THEN IF a \in DOMAIN db
                THEN /\ StoreRaised(p)
                     /\ UNCHANGED db
                ELSE /\ db' = [x \in DOMAIN db \cup {a} |->
                                 IF x = a THEN NewAccount(c, now) ELSE db[x]]
                     /\ StoreReturned(p)
           ELSE /\ db' = [db EXCEPT ![a] = UpdatedAccount(@, c, now)]
                /\ StoreReturned(p)
    /\ UNCHANGED <<aside, env, proc, now, op, agent, account, sc_acct, creds, resp,
                   calls>>

\* get_valid_credentials, lines 76-100 and 109-113: read the row, decrypt,
\* build the Credentials object (the client id and secret are read from the
\* client-secret file here), classify it.
get_valid_credentials(p, a) ==
    /\ proc = "serving"
    /\ pc[p] = "idle"
    /\ op' = [op EXCEPT ![p] = "get_valid_credentials"]
    /\ agent' = [agent EXCEPT ![p] = a]
    /\ account' = [account EXCEPT ![p] = Query(db, a)]
    /\ IF Query(db, a) = NoAccount
       THEN /\ Finish(p, ReturnedFor("no_account"), "no_account")
            /\ UNCHANGED creds
       ELSE LET row == Query(db, a)[a]
                c == Credentials(
                        decrypt(row.access_token),
                        IF Truthy(row.refresh_token)
                            THEN decrypt(row.refresh_token) ELSE None,
                        AsUTC(row.expiry))
            IN  /\ creds' = [creds EXCEPT ![p] = c]
                /\ IF InvalidToken \in {c.token, c.refresh_token}
                      \/ ~env.secrets_file
                   THEN Finish(p, "raise", "-")
                   ELSE IF Classify(c, now) = "refresh"
                   THEN /\ pc' = [pc EXCEPT ![p] = "refresh"]
                        /\ log' = [log EXCEPT ![p] = "refreshing"]
                        /\ UNCHANGED ret
                   ELSE IF Classify(c, now) = "reauth_required"
                   THEN Finish(p, ReturnedFor("reauth_required"), "reauth_required")
                   ELSE Finish(p, "creds", "-")
    /\ UNCHANGED <<aside, env, proc, db, now, sc_acct, resp, calls>>

\* What the identity provider can answer to a refresh grant; the library
\* keeps the old refresh token when the answer carries none.
RefreshResponses(c) ==
    { Credentials(tok, IF rt = None THEN c.refresh_token ELSE rt, <<now + l, 0>>) :
        tok \in AccessTokens,
        rt \in RefreshTokens \cup {None},
        l \in Lifetimes }

\* Mutant of OnRefreshFailure: the refresh is retried inline once.
OnRefreshFailureRetry(p) ==
    IF calls[p] = 0
    THEN /\ log' = [log EXCEPT ![p] = "refresh_failed"]
         /\ UNCHANGED <<pc, ret>>
    ELSE /\ pc' = [pc EXCEPT ![p] = "done"]
         /\ ret' = [ret EXCEPT ![p] = "None"]
         /\ log' = [log EXCEPT ![p] = "refresh_failed"]

\* get_valid_credentials, lines 106-108: the except branch.
OnRefreshFailure(p) ==
    Finish(p, ReturnedFor("refresh_failed"), "refresh_failed")

\* get_valid_credentials, lines 102-108: creds.refresh(Request()).
get_valid_credentials_refresh(p) ==
    /\ pc[p] = "refresh"
    /\ calls' = [calls EXCEPT ![p] = @ + 1]
    /\ \/ /\ OnRefreshFailure(p)
          /\ UNCHANGED <<creds, resp>>
       \/ \E c \in RefreshResponses(creds[p]) :
            /\ creds' = [creds EXCEPT ![p] = c]
            /\ resp' = [resp EXCEPT ![p] = c.token]
            /\ pc' = [pc EXCEPT ![p] = "store_query"]
            /\ UNCHANGED <<ret, log>>
    /\ UNCHANGED <<aside, env, proc, db, now, op, agent, account, sc_acct>>

\* The response is delivered and the worker is free for the next request.
Return(p) ==
    /\ pc[p] = "done"
    /\ pc' = [pc EXCEPT ![p] = "idle"]
    /\ op' = [op EXCEPT ![p] = "-"]
    /\ agent' = [agent EXCEPT ![p] = "-"]
    /\ account' = [account EXCEPT ![p] = NoAccount]
    /\ sc_acct' = [sc_acct EXCEPT ![p] = NoAccount]
    /\ creds' = [creds EXCEPT ![p] = NoCreds]
    /\ resp' = [resp EXCEPT ![p] = None]
    /\ calls' = [calls EXCEPT ![p] = 0]
    /\ log' = [log EXCEPT ![p] = "-"]
    /\ ret' = [ret EXCEPT ![p] = "-"]
    /\ UNCHANGED <<aside, env, proc, db, now>>

\* The clock advances between requests.
Tick ==
    /\ \A p \in Procs : pc[p] = "idle"
    /\ now < MaxTime
    /\ now' = now + 1
    /\ UNCHANGED <<aside, env, proc, db, pc, locals>>

Next ==
    \/ Startup
    \/ \E p \in Workers, a \in Authorizing : login(p, a)
    \/ \E p \in Workers, a \in Authorizing : exchange_code_and_store(p, a)
    \/ \E p \in Workers, a \in Authorizing : exchange_code_with_code(p, a)
    \/ \E p \in Workers, a \in Agents : get_valid_credentials(p, a)
    \/ \E p \in Workers : get_valid_credentials_refresh(p)
    \/ \E p \in Workers : store_credentials_query(p)
    \/ \E p \in Workers : store_credentials_commit(p)
    \/ \E p \in Workers : Return(p)
    \/ Tick

Spec == Init /\ [][Next]_vars

\* ------------------------------------------ a rotating identity provider
\* The k-th token pair of the rotating provider, with lifetime l: tokens are
\* never handed out twice.
Issue(k, l) ==
    Credentials(<<k>>, <<10 + k>>, <<now + l, 0>>)

\* Refresh grants the provider has accepted and not answered yet.
Pending ==
    Cardinality({ p \in Procs : pc[p] = "refresh_wait" })

\* exchange_code_with_code against the rotating provider: the grant makes
\* its refresh token the one the provider accepts.
exchange_rotating(p, a) ==
    /\ proc = "serving"
    /\ pc[p] = "idle"
    /\ op' = [op EXCEPT ![p] = "exchange_code_with_code"]
    /\ agent' = [agent EXCEPT ![p] = a]
    /\ calls' = [calls EXCEPT ![p] = 1]
    /\ \/ /\ OnFetchFailure(p)
          /\ UNCHANGED idp
       \/ /\ idp.n + Pending < MaxIssued
          /\ \E l \in Lifetimes :
                /\ creds' = [creds EXCEPT ![p] = Issue(idp.n + 1, l)]
                /\ resp' = [resp EXCEPT ![p] = Issue(idp.n + 1, l).token]
                /\ idp' = [n |-> idp.n + 1,
                           valid |-> Issue(idp.n + 1, l).refresh_token]
          /\ pc' = [pc EXCEPT ![p] = "store_query"]
          /\ UNCHANGED <<ret, log>>
    /\ UNCHANGED <<sec, secrets, sres, env, proc, db, now, account, sc_acct>>

\* Mutant of refresh_request: a provider that accepts every refresh token
\* it ever handed out.
refresh_request_any_token(p) ==
    /\ pc[p] = "refresh"
    /\ calls' = [calls EXCEPT ![p] = @ + 1]
    /\ \/ OnRefreshFailure(p)
       \/ /\ idp.n + Pending < MaxIssued
          /\ pc' = [pc EXCEPT ![p] = "refresh_wait"]
          /\ UNCHANGED <<ret, log>>
    /\ UNCHANGED <<aside, env, proc, db, now, op, agent, account, sc_acct,
                   creds, resp>>

\* creds.refresh(Request()), the request: the provider rejects a refresh
\* token it no longer accepts (or the call fails on the network), else it
\* takes the grant.
refresh_request(p) ==
    /\ pc[p] = "refresh"
    /\ calls' = [calls EXCEPT ![p] = @ + 1]
    /\ \/ OnRefreshFailure(p)
       \/ /\ creds[p].refresh_token = idp.valid
          /\ idp.n + Pending < MaxIssued
          /\ pc' = [pc EXCEPT ![p] = "refresh_wait"]
          /\ UNCHANGED <<ret, log>>
    /\ UNCHANGED <<aside, env, proc, db, now, op, agent, account, sc_acct,
                   creds, resp>>

\* creds.refresh(Request()), the answer: a new token pair; the refresh
\* token handed out before is no longer accepted.
refresh_response(p) ==
    /\ pc[p] = "refresh_wait"
    /\ \E l \in Lifetimes :
          /\ creds' = [creds EXCEPT ![p] = Issue(idp.n + 1, l)]
          /\ resp' = [resp EXCEPT ![p] = Issue(idp.n + 1, l).token]
          /\ idp' = [n |-> idp.n + 1,
                     valid |-> Issue(idp.n + 1, l).refresh_token]
    /\ pc' = [pc EXCEPT ![p] = "store_query"]
    /\ UNCHANGED <<sec, secrets, sres, env, proc, db, now, op, agent, account,
                   sc_acct, calls, log, ret>>

\* creds.refresh(Request()) against a provider that does not rotate: the
\* answer carries a fresh access token and no refresh token, and the
\* library keeps the refresh token the credentials object was built with.
refresh_keeping_token(p) ==
    /\ pc[p] = "refresh"
    /\ calls' = [calls EXCEPT ![p] = @ + 1]
    /\ \/ /\ OnRefreshFailure(p)
          /\ UNCHANGED <<creds, resp, idp>>
       \/ /\ idp.n < MaxIssued
          /\ \E l \in Lifetimes :
                /\ creds' = [creds EXCEPT ![p] =
                                Credentials(Issue(idp.n + 1, l).token,
                                            creds[p].refresh_token,
                                            Issue(idp.n + 1, l).expiry)]
                /\ resp' = [resp EXCEPT ![p] = Issue(idp.n + 1, l).token]
          /\ idp' = [idp EXCEPT !.n = @ + 1]
          /\ pc' = [pc EXCEPT ![p] = "store_query"]
          /\ UNCHANGED <<ret, log>>
    /\ UNCHANGED <<sec, secrets, sres, env, proc, db, now, op, agent, account,
                   sc_acct>>

\* ------------------------------------------------------ main.py, /secrets
\* The secret_data maps a request body can carry.
SecretMaps ==
    UNION { [K -> SecretValues] : K \in SUBSET SecretKeys }

\* _encrypt_secret_data: {k: encrypt(str(v)) for k, v in data.items()}
encrypt_secret_data(data, ts) ==
    [k \in DOMAIN data |-> encrypt(Str(data[k]), ts)]

\* _decrypt_secret_data: {k: decrypt(str(v)) for k, v in data.items()}
decrypt_secret_data(data) ==
    [k \in DOMAIN data |-> decrypt(Str(data[k]))]

\* The response of GET /secrets/{agent_id}/{service_name} on `table`: 404
\* without a row, 500 when decrypt raises, else the decrypted map.
get_secret_response(table, a, svc) ==
    IF <<a, svc>> \notin DOMAIN table
    THEN [status |-> 404, data |-> NoData]
    ELSE LET d == decrypt_secret_data(table[<<a, svc>>])
         IN  IF \E k \in DOMAIN d : d[k] = InvalidToken
             THEN [status |-> 500, data |-> NoData]
             ELSE [status |-> 200, data |-> d]

\* POST /secrets
upsert_secret(a, svc, m) ==
    /\ proc = "serving"
    /\ secrets' = [x \in DOMAIN secrets \cup {<<a, svc>>} |->
                     IF x = <<a, svc>> THEN encrypt_secret_data(m, now)
                                       ELSE secrets[x]]
    /\ sres' = [fn |-> "upsert_secret", key |-> <<a, svc>>, body |-> m,
                status |-> 200, data |-> NoData, listed |-> {}]
    /\ UNCHANGED <<idp, sec, env, proc, db, now, pc, locals>>

\* GET /secrets/{agent_id}
list_secrets(a) ==
    /\ proc = "serving"
    /\ sres' = [fn |-> "list_secrets", key |-> <<a, "-">>, body |-> NoData,
                status |-> 200, data |-> NoData,
                listed |-> { x[2] : x \in { y \in DOMAIN secrets : y[1] = a } }]
    /\ UNCHANGED <<idp, sec, secrets, env, proc, db, now, pc, locals>>

\* GET /secrets/{agent_id}/{service_name}
get_secret(a, svc) ==
    /\ proc = "serving"
    /\ sres' = [fn |-> "get_secret", key |-> <<a, svc>>, body |-> NoData,
                status |-> get_secret_response(secrets, a, svc).status,
                data |-> get_secret_response(secrets, a, svc).data,
                listed |-> {}]
    /\ UNCHANGED <<idp, sec, secrets, env, proc, db, now, pc, locals>>

\* DELETE /secrets/{agent_id}/{service_name}
delete_secret(a, svc) ==
    /\ proc = "serving"
    /\ IF <<a, svc>> \in DOMAIN secrets
       THEN /\ secrets' = [x \in DOMAIN secrets \ {<<a, svc>>} |-> secrets[x]]
            /\ sres' = [fn |-> "delete_secret", key |-> <<a, svc>>,
                        body |-> NoData, status |-> 200, data |-> NoData,
                        listed |-> {}]
       ELSE /\ sres' = [fn |-> "delete_secret", key |-> <<a, svc>>,
                        body |-> NoData, status |-> 404, data |-> NoData,
                        listed |-> {}]
            /\ UNCHANGED secrets
    /\ UNCHANGED <<idp, sec, env, proc, db, now, pc, locals>>

\* The /secrets endpoints, served one request at a time.
NextSecrets ==
    \/ Startup
    \/ \E a \in Agents, svc \in Services, m \in SecretMaps :
            upsert_secret(a, svc, m)
    \/ \E a \in Agents : list_secrets(a)
    \/ \E a \in Agents, svc \in Services : get_secret(a, svc)
    \/ \E a \in Agents, svc \in Services : delete_secret(a, svc)

SpecSecrets == Init /\ [][NextSecrets]_vars

\* encrypt and decrypt applied to every input, at every clock reading.
NextSecurity ==
    \/ Startup
    \/ security_encrypt
    \/ security_decrypt
    \/ security_decrypt_arg
    \/ Tick

SpecSecurity == InitSecurity /\ [][NextSecurity]_vars

\* Both workers serve requests for one agent against the rotating provider.
NextConc ==
    \/ Startup
    \/ \E p \in Procs, a \in Authorizing : exchange_rotating(p, a)
    \/ \E p \in Procs, a \in Authorizing : get_valid_credentials(p, a)
    \/ \E p \in Procs : refresh_request(p)
    \/ \E p \in Procs : refresh_response(p)
    \/ \E p \in Procs : store_credentials_query(p)
    \/ \E p \in Procs : store_credentials_commit(p)
    \/ \E p \in Procs : Return(p)
    \/ Tick

SpecConc == Init /\ [][NextConc]_vars

\* Both workers serve requests for one agent against a provider that hands
\* out a refresh token at each grant exchange only.
NextReauth ==
    \/ Startup
    \/ \E p \in Procs, a \in Authorizing : exchange_rotating(p, a)
    \/ \E p \in Procs, a \in Authorizing : get_valid_credentials(p, a)
    \/ \E p \in Procs : refresh_keeping_token(p)
    \/ \E p \in Procs : store_credentials_query(p)
    \/ \E p \in Procs : store_credentials_commit(p)
    \/ \E p \in Procs : Return(p)
    \/ Tick

SpecReauth == Init /\ [][NextReauth]_vars

\* The same process started in any environment.
SpecEnv == InitEnv /\ [][Next]_vars

\* ================================================================== claims
\* Worker p has finished a call of get_valid_credentials and its result has
\* not been delivered yet.
Resolved(p) ==
    pc[p] = "done" /\ op[p] = "get_valid_credentials"

\* Worker p starts get_valid_credentials(a) in this step.
ResolveStep(p, a) ==
    pc[p] = "idle" /\ op'[p] = "get_valid_credentials" /\ agent'[p] = a

\* The row the finished call of worker p read at line 76.
RowRead(p) ==
    account[p][agent[p]]

\* C1: a call of get_valid_credentials that read a row whose expiry is in
\* the past and whose refresh token is not null has made exactly one refresh
\* call when it ends and, when the provider answered it, returns the access
\* token of that answer; a call that read a row whose expiry is null or in
\* the future has made no refresh call and returns the decrypted stored
\* access token.
C1_RefreshExactlyWhenExpired ==
    \A p \in Procs :
        (Resolved(p) /\ account[p] # NoAccount) =>
            /\ (/\ RowRead(p).expiry # None
                /\ RowRead(p).expiry[1] < now
                /\ RowRead(p).refresh_token # None)
               => /\ calls[p] = 1
                  /\ resp[p] # None =>
                        /\ ret[p] = "creds"
                        /\ creds[p].token = resp[p]
            /\ (RowRead(p).expiry = None \/ RowRead(p).expiry[1] > now)
               => /\ calls[p] = 0
                  /\ ret[p] = "creds"
                  /\ \E ts \in 0..now :
                        RowRead(p).access_token = <<128, ts>> \o creds[p].token

\* A call that read an expired, refreshable row, made one refresh call and
\* returns a token other than the stored one.
C1_Witness ==
    \E p \in Procs :
        /\ Resolved(p) /\ account[p] # NoAccount
        /\ RowRead(p).expiry # None /\ RowRead(p).expiry[1] < now
        /\ RowRead(p).refresh_token # None
        /\ calls[p] = 1 /\ ret[p] = "creds"
        /\ RowRead(p).access_token[3] # creds[p].token[1]

\* C2: get_valid_credentials on a row whose expiry is in the past and whose
\* refresh token is null ends in that same step with the failure value of
\* the re-authentication branch, without a refresh call, and leaves the
\* table as it was.
C2_ReauthRequiredNoCall ==
    [][\A p \in Procs, a \in Agents :
        (/\ ResolveStep(p, a)
         /\ a \in DOMAIN db
         /\ db[a].expiry # None
         /\ db[a].expiry[1] < now
         /\ db[a].refresh_token = None)
        => /\ pc'[p] = "done"
           /\ ret'[p] = "None"
           /\ log'[p] = "reauth_required"
           /\ calls'[p] = 0
           /\ db' = db]_vars

\* A call ended in the re-authentication branch on an expired row without a
\* refresh token.
C2_Witness ==
    \E p \in Procs :
        /\ Resolved(p) /\ account[p] # NoAccount
        /\ RowRead(p).expiry # None /\ RowRead(p).expiry[1] < now
        /\ RowRead(p).refresh_token = None
        /\ log[p] = "reauth_required" /\ ret[p] = "None" /\ calls[p] = 0
        /\ db[agent[p]] = RowRead(p)

\* C3: get_valid_credentials for an agent without a row ends in that same
\* step with the failure value of the no-account branch, without a refresh
\* call, and creates no row.
C3_NotConnectedNoCall ==
    [][\A p \in Procs, a \in Agents :
        (ResolveStep(p, a) /\ a \notin DOMAIN db)
        => /\ pc'[p] = "done"
           /\ ret'[p] = "None"
           /\ log'[p] = "no_account"
           /\ calls'[p] = 0
           /\ db' = db]_vars

\* A call for an agent without a row ended in the no-account branch while
\* another agent is connected.
C3_Witness ==
    \E p \in Procs :
        /\ Resolved(p)
        /\ agent[p] \notin DOMAIN db
        /\ DOMAIN db # {}
        /\ log[p] = "no_account" /\ ret[p] = "None" /\ calls[p] = 0

\* C4 (as claimed): the value get_valid_credentials returns on one kind of
\* failure differs from the value it returns on each of the other two kinds.
C4_FailureKindsDistinct ==
    \A p \in Procs :
        (Resolved(p) /\ log[p] \in FailureKinds) =>
            \A k \in FailureKinds \ {log[p]} : ret[p] # ReturnedFor(k)

\* C5: store_credentials on an existing row keeps the stored refresh token
\* (it decrypts to the same R) when the new credentials carry none and
\* replaces it by the new one otherwise; no step takes a row away or turns a
\* non-null refresh token into null.
C5_RefreshTokenPreserved ==
    [][\A a \in DOMAIN db :
        /\ a \in DOMAIN db'
        /\ db[a].refresh_token # None => db'[a].refresh_token # None
        /\ \A p \in Procs :
            (/\ pc[p] = "store_commit"
             /\ agent[p] = a
             /\ ret'[p] = "creds")
            => IF creds[p].refresh_token = None
               THEN db'[a].refresh_token = db[a].refresh_token
               ELSE \E ts \in 0..now :
                       db'[a].refresh_token = <<128, ts>> \o creds[p].refresh_token
      ]_vars

\* An exchange that carried no refresh token has been stored over a row
\* that holds one, and the row still holds it.
C5_Witness ==
    \E p \in Procs :
        /\ pc[p] = "done"
        /\ op[p] \in {"exchange_code_and_store", "exchange_code_with_code"}
        /\ ret[p] = "creds"
        /\ creds[p].refresh_token = None
        /\ sc_acct[p] # NoAccount
        /\ db[agent[p]].refresh_token \in {<<128, ts>> \o r :
                                            ts \in 0..now, r \in RefreshTokens}

\* C6: a call of get_valid_credentials whose refresh call failed made that
\* one refresh call only, returns None, and the row of its agent is the row
\* it read.
C6_FailedRefreshWritesNothing ==
    \A p \in Procs :
        /\ calls[p] <= 1
        /\ (Resolved(p) /\ log[p] = "refresh_failed") =>
            /\ calls[p] = 1
            /\ ret[p] = "None"
            /\ resp[p] = None
            /\ db[agent[p]] = RowRead(p)

\* A call ended after its refresh call failed.
C6_Witness ==
    \E p \in Procs :
        /\ Resolved(p) /\ log[p] = "refresh_failed"
        /\ calls[p] = 1 /\ ret[p] = "None"
        /\ RowRead(p).expiry[1] < now
        /\ db[agent[p]] = RowRead(p)

\* The clock reading at which the row was last written: store_credentials
\* encrypts the access token anew at every write.
WrittenAt(row) ==
    row.access_token[2]

\* C7: the step in which get_valid_credentials returns a refreshed
\* credential leaves a row whose access token is the ciphertext of the
\* returned token and whose expiry is the refreshed, still future, expiry;
\* and every call that starts on a row whose expiry is in the future ends in
\* that step with no refresh call and returns the stored token.
C7_RefreshPersistedBeforeReturn ==
    [][\A p \in Procs :
        /\ (/\ pc[p] = "store_commit"
            /\ op[p] = "get_valid_credentials"
            /\ ret'[p] = "creds")
           => /\ creds'[p].token = resp[p]
              /\ db'[agent[p]].access_token = <<128, now>> \o creds'[p].token
              /\ db'[agent[p]].expiry = creds'[p].expiry
              /\ db'[agent[p]].expiry[1] > now
        /\ \A a \in DOMAIN db :
            (/\ ResolveStep(p, a)
             /\ db[a].expiry # None
             /\ db[a].expiry[1] > now)
            => /\ pc'[p] = "done"
               /\ ret'[p] = "creds"
               /\ calls'[p] = 0
               /\ db[a].access_token = <<128, WrittenAt(db[a])>> \o creds'[p].token
      ]_vars

\* A call returns a refreshed credential and the row holds its token and
\* its expiry, both other than the ones the call read.
C7_Witness ==
    \E p \in Procs :
        /\ Resolved(p) /\ log[p] = "refreshed" /\ ret[p] = "creds"
        /\ db[agent[p]].access_token = <<128, now>> \o creds[p].token
        /\ db[agent[p]].expiry = creds[p].expiry
        /\ db[agent[p]].expiry # RowRead(p).expiry
        /\ db[agent[p]].access_token[3] # RowRead(p).access_token[3]

\* C8: a finished call of get_valid_credentials either returns a credential
\* whose expiry is null or in the future, or returns None from one of its
\* three failure branches.
C8_ReturnedCredentialIsValid ==
    \A p \in Procs :
        Resolved(p) =>
            IF ret[p] = "creds"
            THEN creds[p].expiry = None \/ creds[p].expiry[1] > now
            ELSE ret[p] = "None" /\ log[p] \in FailureKinds

\* A call returns the stored credential, whose expiry is in the future.
C8_Witness ==
    \E p \in Procs :
        /\ Resolved(p) /\ ret[p] = "creds" /\ calls[p] = 0
        /\ creds[p].expiry # None /\ creds[p].expiry[1] > now

\* C9 (as claimed): a call of get_valid_credentials that reads a row written
\* in the same clock instant returns a credential without a refresh call;
\* a call that reads a row whose expiry is in the past makes exactly one
\* refresh call and leaves a stored expiry strictly later than the one it
\* read.
C9_EndToEndAsClaimed ==
    \A p \in Procs :
        (Resolved(p) /\ account[p] # NoAccount) =>
            /\ WrittenAt(RowRead(p)) = now
               => ret[p] = "creds" /\ calls[p] = 0
            /\ (RowRead(p).expiry # None /\ RowRead(p).expiry[1] < now)
               => /\ calls[p] = 1
                  /\ db[agent[p]].expiry[1] > RowRead(p).expiry[1]

\* C9 (amended): a finished exchange leaves a row written now and not
\* expired; a call of get_valid_credentials that reads a row written in the
\* same clock instant returns a credential without a refresh call; a call
\* that reads a row whose expiry is in the past and which holds a refresh
\* token makes exactly one refresh call and, when the provider answered it,
\* leaves a stored expiry strictly later than the one it read.
C9_EndToEnd ==
    \A p \in Procs :
        /\ (/\ pc[p] = "done"
            /\ op[p] \in {"exchange_code_and_store", "exchange_code_with_code"}
            /\ ret[p] = "creds")
           => /\ WrittenAt(db[agent[p]]) = now
              /\ db[agent[p]].expiry = creds[p].expiry
              /\ db[agent[p]].expiry = None \/ db[agent[p]].expiry[1] > now
        /\ (Resolved(p) /\ account[p] # NoAccount) =>
            /\ WrittenAt(RowRead(p)) = now
               => ret[p] = "creds" /\ calls[p] = 0
            /\ (/\ RowRead(p).expiry # None
                /\ RowRead(p).expiry[1] < now
                /\ RowRead(p).refresh_token # None)
               => /\ calls[p] = 1
                  /\ resp[p] # None
                     => db[agent[p]].expiry[1] > RowRead(p).expiry[1]

\* A call on a row that expired two clock units ago made one refresh call
\* and the stored expiry is later than the one it read.
C9_Witness ==
    \E p \in Procs :
        /\ Resolved(p) /\ account[p] # NoAccount
        /\ RowRead(p).expiry # None /\ RowRead(p).expiry[1] + 2 = now
        /\ calls[p] = 1 /\ resp[p] # None
        /\ db[agent[p]].expiry[1] > RowRead(p).expiry[1]

\* Fernet tokens of the plaintexts in S.
Ciphertexts(S) ==
    { <<128, ts>> \o x : ts \in 0..MaxTime, x \in S }

\* C10: in every state the access_token column of every row is a Fernet
\* token of an access token, and the refresh_token column is null or a
\* Fernet token of a refresh token; neither is a plaintext token.
C10_StoredTokensAreCiphertext ==
    \A a \in DOMAIN db :
        /\ db[a].access_token \in Ciphertexts(AccessTokens)
        /\ db[a].access_token \notin AccessTokens \cup RefreshTokens
        /\ \/ db[a].refresh_token = None
           \/ /\ db[a].refresh_token \in Ciphertexts(RefreshTokens)
              /\ db[a].refresh_token \notin AccessTokens \cup RefreshTokens

\* A row whose access token was encrypted by a later write than its refresh
\* token: it has been through an insert and an update that kept the refresh
\* token.
C10_Witness ==
    \E a \in DOMAIN db :
        /\ db[a].refresh_token # None
        /\ db[a].refresh_token[2] < db[a].access_token[2]
        /\ db[a].access_token \in Ciphertexts(AccessTokens)

\* get_valid_credentials classified the row it read as expired: it went on
\* to refresh, or ended asking for re-authorization.
VerdictExpired(p) ==
    log[p] \in {"refreshing", "refreshed", "refresh_failed", "reauth_required"}

\* C11: whatever the UTC offset of the host's local time zone, a call of
\* get_valid_credentials that reads a row with a timezone-naive expiry
\* classifies it as expired exactly when the UTC clock has reached the
\* stored reading; in particular a stored expiry of UTC-now minus one is
\* expired on every host.
C11_NaiveExpiryReadAsUTC ==
    [][\A p \in Procs : \A a \in DOMAIN db :
          (/\ ResolveStep(p, a)
           /\ Truthy(db[a].expiry)
           /\ db[a].expiry[2] = 0
           /\ ret'[p] # "raise")
          => /\ VerdictExpired(p)' <=> (db[a].expiry[1] <= now)
             /\ db[a].expiry[1] = now - 1 => VerdictExpired(p)']_vars

\* On a host whose local time is not UTC, a finished call that read a naive
\* expiry of UTC-now minus one and classified it as expired.
C11_Witness ==
    \E p \in Procs :
        /\ Resolved(p) /\ account[p] # NoAccount
        /\ env.utc_offset = -1
        /\ RowRead(p).expiry = <<now - 1, 0>>
        /\ VerdictExpired(p)

\* C12: encrypt of None or "" is None, decrypt of None or "" is None, and
\* for every other string s the token encrypt returns is not s and decrypt
\* of it is s.
C12_EncryptDecryptRoundTrip ==
    /\ sec.step \in {"encrypted", "decrypted"} =>
          IF sec.data \in {None, << >>}
          THEN sec.token = None
          ELSE sec.token # None /\ sec.token # sec.data
    /\ sec.step = "decrypted" =>
          IF sec.data \in {None, << >>}
          THEN sec.plain = None
          ELSE sec.plain = sec.data
    /\ (sec.step = "arg_decrypted" /\ sec.data \in {None, << >>}) =>
          sec.plain = None

\* A string of two or more characters that starts like a Fernet token came
\* back from decrypt(encrypt(s)) at a clock reading other than 0.
C12_Witness ==
    /\ sec.step = "decrypted"
    /\ Len(sec.data) >= 2 /\ sec.data[1] = 128
    /\ sec.token[2] > 0
    /\ sec.plain = sec.data

\* C13: in an environment without FERNET_KEY the process never serves: no
\* worker ever leaves idle, so no exchange, store or resolve (and with them
\* no encrypt or decrypt) runs, and the table stays empty.
C13_NoKeyNoService ==
    ~env.fernet_key =>
        /\ proc \in {"boot", "crashed"}
        /\ \A p \in Procs : pc[p] = "idle" /\ op[p] = "-" /\ ret[p] = "-"
        /\ db = NoAccount

\* The process was started without FERNET_KEY and went down at the import
\* of security.py.
C13_Witness ==
    ~env.fernet_key /\ proc = "crashed"

\* C14 (as claimed): in an environment without the client-secret file the
\* process does not serve, and no request is accepted and then failed.
C14_MissingDescriptorIsFatal ==
    ~env.secrets_file =>
        /\ proc \in {"boot", "crashed"}
        /\ \A p \in Procs : pc[p] = "idle" /\ ret[p] # "raise"

\* The two grant exchange functions.
ExchangeFns ==
    {"exchange_code_and_store", "exchange_code_with_code"}

\* C15: a grant exchange whose provider call failed ends in that same step
\* with the exception handed to its caller, after exactly one provider
\* call, and leaves gmail_accounts as it was: no row added, no column of an
\* existing row changed.
C15_FailedExchangeWritesNothing ==
    [][\A p \in Procs :
          (/\ pc[p] = "idle"
           /\ op'[p] \in ExchangeFns
           /\ calls'[p] > 0
           /\ resp'[p] = None)
          => /\ pc'[p] = "done"
             /\ ret'[p] = "raise"
             /\ calls'[p] = 1
             /\ db' = db]_vars

\* A failed exchange for an agent that already has a row with a refresh
\* token.
C15_Witness ==
    \E p \in Procs :
        /\ pc[p] = "done" /\ op[p] \in ExchangeFns
        /\ ret[p] = "raise" /\ calls[p] = 1
        /\ agent[p] \in DOMAIN db
        /\ db[agent[p]].refresh_token # None

\* C16 (as claimed): every call of an exchange function or of
\* get_valid_credentials ends by returning to its caller; none ends with an
\* exception leaving the function.
C16_NoRawException ==
    \A p \in Procs :
        (pc[p] = "done" /\ op[p] \in ExchangeFns \cup {"get_valid_credentials"})
        => ret[p] \in {"creds", "None"}

\* C17 (as claimed): after upsert_secret(agent, service, m), get_secret of
\* that pair answers with exactly m, the stored map has the keys of m and
\* no other, and every stored value is a Fernet token.
C17_SecretRoundTrip ==
    sres.fn = "upsert_secret" =>
        /\ get_secret_response(secrets, sres.key[1], sres.key[2])
              = [status |-> 200, data |-> sres.body]
        /\ DOMAIN secrets[sres.key] = DOMAIN sres.body
        /\ \A k \in DOMAIN secrets[sres.key] :
              IsFernetToken(secrets[sres.key][k])

\* Worker p's store_credentials commits in this step without raising.
Commits(p) ==
    pc[p] = "store_commit" /\ pc'[p] = "done" /\ ret'[p] = "creds"

\* C18: gmail_accounts changes only when some store_credentials commits, and
\* a commit made for get_valid_credentials leaves the row with the access
\* token, the refresh token and the expiry of that one call's refreshed
\* credentials, whatever another call wrote before; so of two racing
\* refreshes the row left is the last committer's.
C18_LastRefreshWriterWins ==
    [][/\ db' # db => \E p \in Procs : Commits(p)
       /\ \A p \in Procs :
            (Commits(p) /\ op[p] = "get_valid_credentials")
            => /\ db'[agent[p]].access_token = <<128, now>> \o creds[p].token
               /\ db'[agent[p]].refresh_token
                     = <<128, now>> \o creds[p].refresh_token
               /\ db'[agent[p]].expiry = creds[p].expiry]_vars

\* Both workers read the same expired row, each made one refresh call and
\* got its own answer, both committed, and the row holds the three values
\* of worker 2, who committed last.
C18_Witness ==
    /\ \A p \in Procs : Resolved(p) /\ calls[p] = 1 /\ log[p] = "refreshed"
    /\ agent[1] = agent[2]
    /\ account[1] = account[2]
    /\ RowRead(1).expiry[1] <= now
    /\ creds[1].token # creds[2].token
    /\ db[agent[2]].access_token = <<128, now>> \o creds[2].token
    /\ db[agent[2]].refresh_token = <<128, now>> \o creds[2].refresh_token
    /\ db[agent[2]].expiry = creds[2].expiry

\* The refresh token stored for agent a is one the rotating provider no
\* longer accepts.
Stale(a) ==
    /\ a \in DOMAIN db
    /\ Truthy(db[a].refresh_token)
    /\ decrypt(db[a].refresh_token) # idp.valid

\* ... and no worker holds or awaits a token pair that could replace it.
Settled(a) ==
    /\ Stale(a)
    /\ \A p \in Procs :
          /\ pc[p] \notin {"refresh_wait", "store_query", "store_commit"}
          /\ pc[p] = "refresh" => creds[p].refresh_token # idp.valid

\* C19: once the stored refresh token is one the rotating provider has
\* invalidated and no call is in flight with a newer one, it stays so until
\* a new grant exchange starts, and every refresh call made for that agent
\* meanwhile is the call's only one and fails: the call returns None and
\* writes nothing.
C19_StaleRefreshTokenSticks ==
    [][\A a \in Authorizing :
          Settled(a) =>
            /\ (\A p \in Procs : ~(pc[p] = "idle" /\ op'[p] \in ExchangeFns))
               => Settled(a)'
            /\ \A p \in Procs :
                  (pc[p] = "refresh" /\ agent[p] = a /\ pc'[p] # "refresh")
                  => /\ pc'[p] = "done"
                     /\ log'[p] = "refresh_failed"
                     /\ ret'[p] = "None"
                     /\ calls'[p] = 1
                     /\ db' = db]_vars

\* Two racing calls of get_valid_credentials both refreshed and both
\* committed, and the refresh token left in the row is not the one the
\* provider handed out last.
C19_Witness ==
    \E a \in Authorizing :
        /\ Settled(a)
        /\ \A p \in Procs :
              Resolved(p) /\ agent[p] = a /\ log[p] = "refreshed"
        /\ account[1] = account[2]

\* C20 (as claimed): every call of store_credentials completes, also when
\* another call for the same agent_id commits between its lookup and its
\* commit: a handler whose provider call was answered ends by returning the
\* credentials.
C20_ConcurrentStoresAllSucceed ==
    \A p \in Procs :
        (/\ pc[p] = "done"
         /\ op[p] \in ExchangeFns \cup {"get_valid_credentials"}
         /\ resp[p] # None)
        => ret[p] = "creds"

\* C21: a row of gmail_accounts appears only in the step in which the
\* store_credentials of a grant exchange commits; a successful exchange
\* leaves a row for its agent; no step takes a row away; and
\* get_valid_credentials answers not-connected only when the agent has no
\* row, hence only when no exchange for it has succeeded so far.
C21_RecordLifecycle ==
    [][/\ \A a \in DOMAIN db : a \in DOMAIN db'
       /\ \A a \in DOMAIN db' \ DOMAIN db :
            \E p \in Procs :
                Commits(p) /\ op[p] \in ExchangeFns /\ agent[p] = a
       /\ \A p \in Procs :
            (Commits(p) /\ op[p] \in ExchangeFns) => agent[p] \in DOMAIN db'
       /\ \A p \in Procs : \A a \in Agents :
            (ResolveStep(p, a) /\ log'[p] = "no_account")
            => a \notin DOMAIN db]_vars

\* A row last written at a clock reading after 0 (so written at least
\* twice, or first written late), then read by a call whose refresh
\* failed, is still there, unchanged.
C21_Witness ==
    \E p \in Procs :
        /\ Resolved(p) /\ log[p] = "refresh_failed"
        /\ agent[p] \in DOMAIN db
        /\ db[agent[p]] = RowRead(p)
        /\ db[agent[p]].access_token[2] >= 1

\* C22 (as claimed): when a grant exchange that obtained refresh token R2
\* and a get_valid_credentials call that read an older refresh token R (one
\* the provider handed out earlier), refreshed and stored, have both
\* completed for the same agent, the stored refresh token decrypts to R2.
\* (The row the call read had expired, so it was written before the
\* exchange began: the call read it before the exchange committed.)
C22_ReauthorizationNotLost ==
    \A p \in Procs : \A q \in Procs :
        (/\ pc[p] = "done" /\ op[p] \in ExchangeFns /\ ret[p] = "creds"
         /\ Resolved(q) /\ agent[q] = agent[p]
         /\ log[q] = "refreshed"
         /\ Truthy(RowRead(q).refresh_token)
         /\ decrypt(RowRead(q).refresh_token)[1] < creds[p].refresh_token[1])
        => decrypt(db[agent[p]].refresh_token) = creds[p].refresh_token

====
